---- MODULE Spec2Model ----
(***************************************************************************)
(* A model of vecnet.winhpc: the WebAPI client of the Windows HPC Web API  *)
(* (webapi.py) and the command-line submission helper (submit.py).         *)
(*                                                                         *)
(* A Python string is a sequence of one-character strings, so that         *)
(* formatting, concatenation, slicing, comparison and XML parsing are      *)
(* computed character by character.  Python's None, True and False are     *)
(* one-element sequences holding a word that no character equals.          *)
(***************************************************************************)
EXTENDS Integers, Sequences, FiniteSets, TLC

None == <<"None">>
PyTrue == <<"True">>
PyFalse == <<"False">>

\* "%s" % x for a string, None, True or False
PyStr(x) ==
    IF x = None THEN <<"N","o","n","e">>
    ELSE IF x = PyTrue THEN <<"T","r","u","e">>
    ELSE IF x = PyFalse THEN <<"F","a","l","s","e">>
    ELSE x

Digit(d) ==
    <<"0","1","2","3","4","5","6","7","8","9">>[d + 1]

\* "%s" % n for a non-negative integer
RECURSIVE IntStr(_)
IntStr(n) ==
    IF n < 10 THEN <<Digit(n)>> ELSE IntStr(n \div 10) \o <<Digit(n % 10)>>

\* the code point of the characters the api-version strings are made of
Ord(c) ==
    CASE c = "-" -> 45
      [] c = "." -> 46
      [] c = "0" -> 48
      [] c = "1" -> 49
      [] c = "2" -> 50
      [] c = "3" -> 51
      [] c = "4" -> 52
      [] c = "5" -> 53
      [] c = "6" -> 54
      [] c = "7" -> 55
      [] c = "8" -> 56
      [] c = "9" -> 57

\* a < b on two Python strings: lexicographic on code points
RECURSIVE StrLess(_, _)
StrLess(a, b) ==
    IF b = <<>> THEN FALSE
    ELSE IF a = <<>> THEN TRUE
    ELSE IF Head(a) = Head(b) THEN StrLess(Tail(a), Tail(b))
    ELSE Ord(Head(a)) < Ord(Head(b))

\* a < b in Python 2, where None is smaller than every string
PyLess(a, b) ==
    IF a = None THEN b # None
    ELSE IF b = None THEN FALSE
    ELSE StrLess(a, b)

HPC_Pack_2012 == <<"2","0","1","2","-","1","1","-","0","1",".","4",".","0">>
HPC_Pack_2008_R2_SP4 == <<"2","0","1","2","-","0","3","-","3","1",".","3",".","4">>
HPC_Pack_2008_R2_SP3 == <<"2","0","1","1","-","1","1","-","0","1">>

(***************************************************************************)
(* What a method returns or raises: one record shape for every Python      *)
(* value the client hands back.                                            *)
(*   kind "None"   None                                                    *)
(*        "bool"   b                                                       *)
(*        "str"    s                                                       *)
(*        "dict"   m, a function from names to values (a string or None)   *)
(*        "list"   l, a sequence of values                                 *)
(*        "raise"  the exception named exc propagates to the caller        *)
(***************************************************************************)
NoDict == [x \in {} |-> None]

RetNone == [kind |-> "None", b |-> FALSE, s |-> <<>>, m |-> NoDict, l |-> <<>>, exc |-> ""]

RetBool(x) == [RetNone EXCEPT !.kind = "bool", !.b = x]

RetStr(x) == [RetNone EXCEPT !.kind = "str", !.s = x]

RetDict(x) == [RetNone EXCEPT !.kind = "dict", !.m = x]

RetList(x) == [RetNone EXCEPT !.kind = "list", !.l = x]

Raise(e) == [RetNone EXCEPT !.kind = "raise", !.exc = e]

\* a string or None, as a returned value
RetValue(v) == IF v = None THEN RetNone ELSE RetStr(v)

(***************************************************************************)
(* XML, as ElementTree.parse and minidom.parse read it: tags, character    *)
(* data with the five predefined entities, and a single root element.      *)
(* A node is [tag, data, kids]; a text node has the empty tag.             *)
(***************************************************************************)
Letters ==
    {"a","b","c","d","e","f","g","h","i","j","k","l","m","n","o","p","q","r","s","t","u","v","w","x","y","z",
     "A","B","C","D","E","F","G","H","I","J","K","L","M","N","O","P","Q","R","S","T","U","V","W","X","Y","Z","_"}

NameChars == Letters \cup {"0","1","2","3","4","5","6","7","8","9",".","-",":"}

RECURSIVE Find(_, _, _)
Find(s, c, i) ==
    IF i > Len(s) THEN 0
    ELSE IF s[i] = c THEN i
    ELSE Find(s, c, i + 1)

IsName(n) ==
    /\ n # <<>>
    /\ n[1] \in Letters
    /\ \A k \in 1..Len(n) : n[k] \in NameChars

\* the element name of a start tag: up to the first blank
TagName(inner) ==
    LET sp == Find(inner, " ", 1)
    IN  IF sp = 0 THEN inner ELSE SubSeq(inner, 1, sp - 1)

\* what stands between "<" and ">"
TagToken(inner) ==
    IF inner = <<>> \/ Find(inner, "<", 1) # 0 THEN [t |-> "bad", v |-> <<>>]
    ELSE IF inner[1] = "/" THEN
        IF IsName(Tail(inner)) THEN [t |-> "close", v |-> Tail(inner)] ELSE [t |-> "bad", v |-> <<>>]
    ELSE IF inner[Len(inner)] = "/" THEN
        LET n == TagName(SubSeq(inner, 1, Len(inner) - 1))
        IN  IF IsName(n) THEN [t |-> "empty", v |-> n] ELSE [t |-> "bad", v |-> <<>>]
    ELSE
        LET n == TagName(inner)
        IN  IF IsName(n) THEN [t |-> "open", v |-> n] ELSE [t |-> "bad", v |-> <<>>]

Entity(name) ==
    CASE name = <<"l","t">> -> <<"<">>
      [] name = <<"g","t">> -> <<">">>
      [] name = <<"a","m","p">> -> <<"&">>
      [] name = <<"q","u","o","t">> -> <<"\"">>
      [] name = <<"a","p","o","s">> -> <<"'">>
      [] OTHER -> <<>>

\* character data: every "&" starts a reference to a predefined entity
RECURSIVE TextOK(_)
TextOK(t) ==
    IF t = <<>> THEN TRUE
    ELSE IF Head(t) = "&" THEN
        LET j == Find(t, ";", 2)
        IN  /\ j # 0
            /\ Entity(SubSeq(t, 2, j - 1)) # <<>>
            /\ TextOK(SubSeq(t, j + 1, Len(t)))
    ELSE TextOK(Tail(t))

RECURSIVE Unescape(_)
Unescape(t) ==
    IF t = <<>> THEN <<>>
    ELSE IF Head(t) = "&" THEN
        LET j == Find(t, ";", 2)
        IN  Entity(SubSeq(t, 2, j - 1)) \o Unescape(SubSeq(t, j + 1, Len(t)))
    ELSE <<Head(t)>> \o Unescape(Tail(t))

RECURSIVE Tokens(_, _)
Tokens(s, i) ==
    IF i > Len(s) THEN <<>>
    ELSE IF s[i] = "<" THEN
        LET j == Find(s, ">", i + 1)
            tok == TagToken(SubSeq(s, i + 1, j - 1))
        IN  IF j = 0 \/ tok.t = "bad" THEN <<[t |-> "bad", v |-> <<>>]>>
            ELSE <<tok>> \o Tokens(s, j + 1)
    ELSE
        LET j == Find(s, "<", i)
            e == IF j = 0 THEN Len(s) ELSE j - 1
            txt == SubSeq(s, i, e)
        IN  IF ~TextOK(txt) THEN <<[t |-> "bad", v |-> <<>>]>>
            ELSE <<[t |-> "text", v |-> Unescape(txt)]>> \o Tokens(s, e + 1)

TextNode(d) == [tag |-> <<>>, data |-> d, kids |-> <<>>]

ElemNode(n, k) == [tag |-> n, data |-> <<>>, kids |-> k]

IsElem(n) == n.tag # <<>>

\* the sibling nodes that start at token i, up to the end tag that closes
\* their parent: [ok, kids, next]
RECURSIVE ParseNodes(_, _)
ParseNodes(toks, i) ==
    IF i > Len(toks) \/ toks[i].t = "close" THEN [ok |-> TRUE, kids |-> <<>>, next |-> i]
    ELSE IF toks[i].t = "bad" THEN [ok |-> FALSE, kids |-> <<>>, next |-> i]
    ELSE IF toks[i].t = "text" THEN
        LET r == ParseNodes(toks, i + 1)
        IN  [r EXCEPT !.kids = <<TextNode(toks[i].v)>> \o @]
    ELSE IF toks[i].t = "empty" THEN
        LET r == ParseNodes(toks, i + 1)
        IN  [r EXCEPT !.kids = <<ElemNode(toks[i].v, <<>>)>> \o @]
    ELSE
        LET inner == ParseNodes(toks, i + 1)
        IN  IF \/ ~inner.ok
               \/ inner.next > Len(toks)
               \/ toks[inner.next].v # toks[i].v
            THEN [ok |-> FALSE, kids |-> <<>>, next |-> i]
            ELSE LET r == ParseNodes(toks, inner.next + 1)
                 IN  [r EXCEPT !.kids = <<ElemNode(toks[i].v, inner.kids)>> \o @]

IsBlank(d) == \A k \in 1..Len(d) : d[k] \in {" ", "\n", "\t", "\r"}

\* the parsed document: [ok, root]; not ok is the parser's error
\* (ParseError in ElementTree, ExpatError in minidom)
ParseXml(xml) ==
    LET toks == Tokens(xml, 1)
        r == ParseNodes(toks, 1)
        elems == SelectSeq(r.kids, IsElem)
        IsStray(n) == ~IsElem(n) /\ ~IsBlank(n.data)
    IN  IF /\ xml # None
           /\ r.ok
           /\ r.next = Len(toks) + 1
           /\ Len(elems) = 1
           /\ SelectSeq(r.kids, IsStray) = <<>>
        THEN [ok |-> TRUE, root |-> elems[1]]
        ELSE [ok |-> FALSE, root |-> TextNode(<<>>)]

\* ElementTree: element.text, the character data before the first child
ET_text(e) ==
    IF e.kids # <<>> /\ ~IsElem(e.kids[1]) THEN e.kids[1].data ELSE None

\* ElementTree: the children of an element are its child elements
ET_children(e) == SelectSeq(e.kids, IsElem)

\* minidom: node.getElementsByTagName(name), the descendants in document order
RECURSIVE getElementsByTagName(_, _)
RECURSIVE ElementsIn(_, _)
ElementsIn(kids, name) ==
    IF kids = <<>> THEN <<>>
    ELSE (IF Head(kids).tag = name THEN <<Head(kids)>> ELSE <<>>)
         \o getElementsByTagName(Head(kids), name)
         \o ElementsIn(Tail(kids), name)
getElementsByTagName(node, name) ==
    ElementsIn(node.kids, name)

\* minidom: node.firstChild.data raises AttributeError unless the first
\* child is a text node
HasFirstChildData(e) == e.kids # <<>> /\ ~IsElem(e.kids[1])

(***************************************************************************)
(* The state.                                                              *)
(*   host .. base_url   the fields of the WebAPI object                    *)
(*   phase              "new" until __init__ has resolved the cluster,     *)
(*                      then "ready", or "raised" if __init__ raised       *)
(*   arg_cluster        __init__'s hpc_cluster_name argument               *)
(*   wire               the last HTTP exchange the requests library made   *)
(*   lastCall           the last method invocation and what it returned    *)
(*   pc, cli, job_id, remote, printed   one run of submit.main             *)
(*   h_names .. h_dict  the helper functions applied on their own          *)
(***************************************************************************)
VARIABLES host, port, username, password, api_version, response, headers,
          requests_kwargs, hpc_cluster_name, base_url, phase, arg_cluster,
          wire, lastCall, pc, cli, job_id, remote, printed,
          h_names, h_string, h_props, h_xml, h_dict, callers

config == <<host, port, username, password, api_version, headers,
            requests_kwargs, hpc_cluster_name, base_url, arg_cluster>>

main_vars == <<pc, cli, job_id, remote, printed>>

helper_vars == <<h_names, h_string, h_props, h_xml, h_dict>>

thread_vars == <<callers>>

vars == <<config, phase, response, wire, lastCall, main_vars, helper_vars, thread_vars>>

\* ---------------------------------------------------------------------------
\* Helper functions
\* ---------------------------------------------------------------------------

\* properties is the keyword dictionary in its iteration order:
\* a sequence of <<name, value>> with distinct names
RECURSIVE PropertyElements(_)
PropertyElements(properties) ==
    IF properties = <<>> THEN <<>>
    ELSE <<"<","P","r","o","p","e","r","t","y",">","<","N","a","m","e",">">> \o PyStr(Head(properties)[1]) \o <<"<","/","N","a","m","e",">","<","V","a","l","u","e",">">>
         \o PyStr(Head(properties)[2]) \o <<"<","/","V","a","l","u","e",">","<","/","P","r","o","p","e","r","t","y",">">>
         \o PropertyElements(Tail(properties))

_xml_from_properties(properties) ==
    <<"<","A","r","r","a","y","O","f","P","r","o","p","e","r","t","y"," ","x","m","l","n","s","=","\"","h","t","t","p",":","/","/","s","c","h","e","m","a","s",".","m","i","c","r","o","s","o","f","t",".","c","o","m","/","H","P","C","S","2","0","0","8","R","2","/","c","o","m","m","o","n","\"",">">>
    \o PropertyElements(properties)
    \o <<"<","/","A","r","r","a","y","O","f","P","r","o","p","e","r","t","y",">">>

\* s[:-1]
ButLast(s) ==
    IF s = <<>> THEN <<>> ELSE SubSeq(s, 1, Len(s) - 1)

\* the loop of _requested_properties_to_string: both statements of its body
RECURSIVE RequestedLoop(_, _)
RequestedLoop(url, requested_properties) ==
    IF requested_properties = <<>> THEN url
    ELSE RequestedLoop(ButLast(url \o Head(requested_properties) \o <<",">>),
                       Tail(requested_properties))

_requested_properties_to_string(requested_properties) ==
    RequestedLoop(<<>>, requested_properties)

\* self_response is self.response at the time of the call
_get_string_from_response(xml, self_response) ==
    LET doc == ParseXml(IF xml = None THEN self_response ELSE xml)
    IN  IF ~doc.ok THEN Raise("ParseError")
        ELSE RetValue(ET_text(doc.root))

\* properties[name] = value
DictSet(d, k, v) ==
    [x \in (DOMAIN d) \cup {k} |-> IF x = k THEN v ELSE d[x]]

\* the loop of _get_properties_from_xml over the Property elements
RECURSIVE PropertiesLoop(_, _)
PropertiesLoop(tags, properties) ==
    IF tags = <<>> THEN RetDict(properties)
    ELSE LET names == getElementsByTagName(Head(tags), <<"N","a","m","e">>)
             values == getElementsByTagName(Head(tags), <<"V","a","l","u","e">>)
         IN  IF names = <<>> THEN Raise("IndexError")
             ELSE IF ~HasFirstChildData(names[1]) THEN Raise("AttributeError")
             ELSE IF values = <<>> THEN Raise("IndexError")
             ELSE PropertiesLoop(Tail(tags),
                      DictSet(properties, names[1].kids[1].data,
                              IF HasFirstChildData(values[1])
                              THEN values[1].kids[1].data
                              ELSE None))

_get_properties_from_xml(xml, self_response) ==
    LET doc == ParseXml(IF xml = None THEN self_response ELSE xml)
    IN  IF ~doc.ok THEN Raise("ExpatError")
        ELSE PropertiesLoop(ElementsIn(<<doc.root>>, <<"P","r","o","p","e","r","t","y">>), NoDict)

\* ---------------------------------------------------------------------------
\* Transport.  net is what the requests library does with the call:
\*   [kind |-> "response", status, text]      the exchange completed
\*   [kind |-> "ConnectionError", text]       it raised ConnectionError(text)
\* What a call gives back is [ret, sent, response, headers]: the value
\* returned or the exception raised, the exchanges made, and self.response
\* and self.headers afterwards.
\* ---------------------------------------------------------------------------

\* headers=None, or an empty dictionary: the default headers go out as they are
NoHeaders == [x \in {} |-> <<>>]

\* dict(self.headers.items() + headers.items())
MergeHeaders(defaults, extra) ==
    [k \in (DOMAIN defaults) \cup (DOMAIN extra) |->
        IF k \in DOMAIN extra THEN extra[k] ELSE defaults[k]]

\* request, were every status below 300 taken for success
request_any_2xx(method, url, data, hdrs, net) ==
    IF method \notin {"post", "get", "put"}
    THEN [ret |-> Raise("RuntimeError"), sent |-> <<>>, response |-> response, headers |-> headers]
    ELSE LET exchange == [method |-> method, url |-> url, data |-> data,
                          headers |-> MergeHeaders(headers, hdrs),
                          auth |-> requests_kwargs.auth,
                          verify |-> requests_kwargs.verify,
                          net |-> net]
         IN  IF net.kind = "response"
             THEN [ret |-> RetBool(net.status < 300), sent |-> <<exchange>>,
                   response |-> net.text, headers |-> headers]
             ELSE [ret |-> RetBool(FALSE), sent |-> <<exchange>>,
                   response |-> PyStr(net.text), headers |-> headers]

\* request, were the description of a connection failure not stored
request_keeps_on_failure(method, url, data, hdrs, net) ==
    IF method \notin {"post", "get", "put"}
    THEN [ret |-> Raise("RuntimeError"), sent |-> <<>>, response |-> response, headers |-> headers]
    ELSE LET exchange == [method |-> method, url |-> url, data |-> data,
                          headers |-> MergeHeaders(headers, hdrs),
                          auth |-> requests_kwargs.auth,
                          verify |-> requests_kwargs.verify,
                          net |-> net]
         IN  IF net.kind = "response"
             THEN [ret |-> RetBool(net.status = 200), sent |-> <<exchange>>,
                   response |-> net.text, headers |-> headers]
             ELSE [ret |-> RetBool(FALSE), sent |-> <<exchange>>,
                   response |-> response, headers |-> headers]

\* request, were the headers of the call merged into self.headers
request_updates_headers(method, url, data, hdrs, net) ==
    IF method \notin {"post", "get", "put"}
    THEN [ret |-> Raise("RuntimeError"), sent |-> <<>>, response |-> response, headers |-> headers]
    ELSE LET exchange == [method |-> method, url |-> url, data |-> data,
                          headers |-> MergeHeaders(headers, hdrs),
                          auth |-> requests_kwargs.auth,
                          verify |-> requests_kwargs.verify,
                          net |-> net]
         IN  IF net.kind = "response"
             THEN [ret |-> RetBool(net.status = 200), sent |-> <<exchange>>,
                   response |-> net.text, headers |-> MergeHeaders(headers, hdrs)]
             ELSE [ret |-> RetBool(FALSE), sent |-> <<exchange>>,
                   response |-> PyStr(net.text), headers |-> MergeHeaders(headers, hdrs)]

\* request, were a failed exchange made a second time
request_retries_once(method, url, data, hdrs, net) ==
    IF method \notin {"post", "get", "put"}
    THEN [ret |-> Raise("RuntimeError"), sent |-> <<>>, response |-> response, headers |-> headers]
    ELSE LET exchange == [method |-> method, url |-> url, data |-> data,
                          headers |-> MergeHeaders(headers, hdrs),
                          auth |-> requests_kwargs.auth,
                          verify |-> requests_kwargs.verify,
                          net |-> net]
         IN  IF net.kind = "response"
             THEN [ret |-> RetBool(net.status = 200),
                   sent |-> (IF net.status = 200 THEN <<exchange>> ELSE <<exchange, exchange>>),
                   response |-> net.text, headers |-> headers]
             ELSE [ret |-> RetBool(FALSE), sent |-> <<exchange, exchange>>,
                   response |-> PyStr(net.text), headers |-> headers]

request(method, url, data, hdrs, net) ==
    IF method \notin {"post", "get", "put"}
    THEN [ret |-> Raise("RuntimeError"), sent |-> <<>>, response |-> response, headers |-> headers]
    ELSE LET exchange == [method |-> method, url |-> url, data |-> data,
                          headers |-> MergeHeaders(headers, hdrs),
                          auth |-> requests_kwargs.auth,
                          verify |-> requests_kwargs.verify,
                          net |-> net]
         IN  IF net.kind = "response"
             THEN [ret |-> RetBool(net.status = 200), sent |-> <<exchange>>,
                   response |-> net.text, headers |-> headers]
             ELSE [ret |-> RetBool(FALSE), sent |-> <<exchange>>,
                   response |-> PyStr(net.text), headers |-> headers]

post(url, data, hdrs, net) ==
    request("post", url, data, hdrs, net)

get(url, net) ==
    request("get", url, None, NoHeaders, net)

put(url, data, net) ==
    request("put", url, data, NoHeaders, net)

\* "if not self.post(url, xml): return None" and then
\* "return self._get_string_from_response()"
ReturnString(r) ==
    IF r.ret.kind = "raise" THEN r
    ELSE IF ~r.ret.b THEN [r EXCEPT !.ret = RetNone]
    ELSE [r EXCEPT !.ret = _get_string_from_response(None, r.response)]

\* "if not self.get(url): return None" and then
\* "return self._get_properties_from_xml()"
ReturnProperties(r) ==
    IF r.ret.kind = "raise" THEN r
    ELSE IF ~r.ret.b THEN [r EXCEPT !.ret = RetNone]
    ELSE [r EXCEPT !.ret = _get_properties_from_xml(None, r.response)]

\* "if not self.get(url): return None" and then "return self.response"
ReturnResponse(r) ==
    IF r.ret.kind = "raise" THEN r
    ELSE IF ~r.ret.b THEN [r EXCEPT !.ret = RetNone]
    ELSE [r EXCEPT !.ret = RetValue(r.response)]

\* requested_properties=None, where a list of names may stand
NoneList == <<None>>

\* "?<key>=" and the requested names, when a list is given
Query(key, requested) ==
    IF requested = NoneList THEN <<>>
    ELSE key \o _requested_properties_to_string(requested)

\* the message body of cancel_job and cancel_task
CancelXml(message) ==
    <<"<","s","t","r","i","n","g"," ","x","m","l","n","s","=","\"","h","t","t","p",":","/","/","s","c","h","e","m","a","s",".","m","i","c","r","o","s","o","f","t",".","c","o","m","/","2","0","0","3","/","1","0","/","S","e","r","i","a","l","i","z","a","t","i","o","n","/","\"",">">>
    \o PyStr(message) \o <<"<","/","s","t","r","i","n","g",">">>

\* ---------------------------------------------------------------------------
\* HPC Web Service API functions
\* ---------------------------------------------------------------------------
add_task(job, properties, net) ==
    LET url == base_url \o <<"/","J","o","b","/">> \o PyStr(job) \o <<"/","T","a","s","k","s">>
        xml == _xml_from_properties(properties)
    IN  ReturnString(post(url, xml, NoHeaders, net))

cancel_job(job, forced, message, net) ==
    LET url == base_url \o <<"/","J","o","b","/">> \o PyStr(job) \o <<"/","C","a","n","c","e","l">>
    IN  post(url, CancelXml(message), [k \in {"forced"} |-> forced], net)

cancel_task(job, task, forced, message, net) ==
    LET url == base_url \o <<"J","o","b","/">> \o PyStr(job) \o <<"/","T","a","s","k","/">> \o PyStr(task) \o <<"/","C","a","n","c","e","l">>
                 \o (IF forced = PyTrue THEN <<"?","F","o","r","c","e","d","=","T","r","u","e">> ELSE <<>>)
    IN  post(url, CancelXml(message), NoHeaders, net)

\* create_job up to its Transport call
create_job_post(properties, net) ==
    LET url == base_url \o <<"/","J","o","b","s">>
        xml == _xml_from_properties(properties)
    IN  post(url, xml, NoHeaders, net)

create_job(properties, net) ==
    ReturnString(create_job_post(properties, net))

create_job_from_xml(xml, net) ==
    LET url == base_url \o <<"J","o","b","s","/","J","o","b","F","i","l","e">>
    IN  ReturnString(post(url, xml, NoHeaders, net))

\* get_active_head_node, were the version not checked
get_active_head_node_unchecked(net) ==
    LET url == base_url \o <<"A","c","t","i","v","e","H","e","a","d","n","o","d","e">>
    IN  ReturnString(get(url, net))

get_active_head_node(net) ==
    IF PyLess(api_version, HPC_Pack_2008_R2_SP4)
    THEN [ret |-> Raise("NotImplementedError"), sent |-> <<>>, response |-> response, headers |-> headers]
    ELSE LET url == base_url \o <<"A","c","t","i","v","e","H","e","a","d","n","o","d","e">>
         IN  ReturnString(get(url, net))

\* clusters_in_xml[1].text for every child of root[0][0]
RECURSIVE ClustersLoop(_, _)
ClustersLoop(items, clusters) ==
    IF items = <<>> THEN RetList(clusters)
    ELSE IF Len(ET_children(Head(items))) < 2 THEN Raise("IndexError")
    ELSE ClustersLoop(Tail(items),
                      Append(clusters, ET_text(ET_children(Head(items))[2])))

ClustersFromResponse(self_response) ==
    LET doc == ParseXml(self_response)
    IN  IF ~doc.ok THEN Raise("ParseError")
        ELSE IF ET_children(doc.root) = <<>> THEN Raise("IndexError")
        ELSE IF ET_children(ET_children(doc.root)[1]) = <<>> THEN Raise("IndexError")
        ELSE ClustersLoop(ET_children(ET_children(ET_children(doc.root)[1])[1]), <<>>)

get_clusters(net) ==
    LET url == <<"h","t","t","p","s",":","/","/">> \o PyStr(host) \o <<":">> \o IntStr(port) \o <<"/","W","i","n","d","o","w","s","H","P","C","/","C","l","u","s","t","e","r","s">>
        r == get(url, net)
    IN  IF r.ret.kind = "raise" THEN r
        ELSE IF ~r.ret.b THEN [r EXCEPT !.ret = RetNone]
        ELSE [r EXCEPT !.ret = ClustersFromResponse(r.response)]

get_job(job, requested_properties, net) ==
    LET url == base_url \o <<"J","o","b","/">> \o PyStr(job)
                 \o Query(<<"?","p","r","o","p","e","r","t","i","e","s","=">>, requested_properties)
    IN  ReturnProperties(get(url, net))

get_job_as_xml(job, net) ==
    LET url == base_url \o <<"J","o","b","/">> \o PyStr(job) \o <<"?","R","e","n","d","e","r","=","H","p","c","J","o","b","X","m","l">>
    IN  ReturnResponse(get(url, net))

get_job_custom_properties(job, requested_properties, net) ==
    LET url == base_url \o <<"J","o","b","/">> \o PyStr(job) \o <<"/","C","u","s","t","o","m","P","r","o","p","e","r","t","i","e","s">>
                 \o Query(<<"?","N","a","m","e","s","=">>, requested_properties)
    IN  ReturnProperties(get(url, net))

get_job_property(job, property_name, net) ==
    LET r == get_job(job, <<property_name>>, net)
        properties == r.ret
    IN  IF properties.kind = "raise" THEN r
        ELSE IF properties.kind # "dict" THEN [r EXCEPT !.ret = Raise("TypeError")]
        ELSE IF DOMAIN properties.m = {} THEN [r EXCEPT !.ret = RetNone]
        ELSE IF property_name \notin DOMAIN properties.m THEN [r EXCEPT !.ret = Raise("KeyError")]
        ELSE [r EXCEPT !.ret = RetValue(properties.m[property_name])]

get_job_environment_variables(job, requested_variables, net) ==
    LET url == base_url \o <<"J","o","b","/">> \o PyStr(job) \o <<"/","E","n","v","V","a","r","i","a","b","l","e","s">>
                 \o Query(<<"?","p","r","o","p","e","r","t","i","e","s","=">>, requested_variables)
    IN  ReturnProperties(get(url, net))

get_subtask(job, task, subtask, requested_properties, net) ==
    LET url == base_url \o <<"J","o","b","/">> \o PyStr(job) \o <<"/","T","a","s","k","/">> \o PyStr(task)
                 \o <<"/","S","u","b","T","a","s","k","/">> \o PyStr(subtask)
                 \o Query(<<"?","P","r","o","p","e","r","t","i","e","s","=">>, requested_properties)
    IN  ReturnProperties(get(url, net))

get_subtask_as_xml(job, task, subtask, net) ==
    LET url == base_url \o <<"J","o","b","/">> \o PyStr(job) \o <<"/","T","a","s","k","/">> \o PyStr(task)
                 \o <<"/","S","u","b","T","a","s","k","/">> \o PyStr(subtask) \o <<"?","R","e","n","d","e","r","=","H","p","c","J","o","b","X","m","l">>
    IN  ReturnResponse(get(url, net))

get_task(job, task, requested_properties, net) ==
    LET url == base_url \o <<"J","o","b","/">> \o PyStr(job) \o <<"/","T","a","s","k","/">> \o PyStr(task)
                 \o Query(<<"?","P","r","o","p","e","r","t","i","e","s","=">>, requested_properties)
    IN  ReturnProperties(get(url, net))

get_task_environment_variables(job, task, requested_env_variables, net) ==
    LET url == base_url \o <<"J","o","b","/">> \o PyStr(job) \o <<"/","T","a","s","k","/">> \o PyStr(task)
                 \o <<"/","E","n","v","V","a","r","i","a","b","l","e","s">>
                 \o Query(<<"?","N","a","m","e","s","=">>, requested_env_variables)
    IN  ReturnProperties(get(url, net))

\* get_version up to its Transport call
get_version_get(net) ==
    LET url == base_url \o <<"V","e","r","s","i","o","n">>
    IN  get(url, net)

get_version(net) ==
    ReturnString(get_version_get(net))

requeue_job(job, net) ==
    LET url == base_url \o <<"J","o","b","/">> \o PyStr(job) \o <<"/","R","e","q","u","e","u","e">>
    IN  post(url, <<"<","A","r","r","a","y","O","f","P","r","o","p","e","r","t","y"," ","x","m","l","n","s","=","\"","h","t","t","p",":","/","/","s","c","h","e","m","a","s",".","m","i","c","r","o","s","o","f","t",".","c","o","m","/","H","P","C","S","2","0","0","8","R","2","/","c","o","m","m","o","n","\""," ","/",">">>,
             NoHeaders, net)

set_job_environment_variables(job, variables, net) ==
    LET url == base_url \o <<"J","o","b","/">> \o PyStr(job) \o <<"/","E","n","v","V","a","r","i","a","b","l","e","s">>
    IN  post(url, _xml_from_properties(variables), NoHeaders, net)

set_job_properties(job, properties, net) ==
    IF api_version = None
    THEN [ret |-> Raise("RuntimeError"), sent |-> <<>>, response |-> response, headers |-> headers]
    ELSE LET url == base_url \o <<"J","o","b","/">> \o PyStr(job)
         IN  put(url, _xml_from_properties(properties), net)

set_job_custom_properties(job, properties, net) ==
    LET url == base_url \o <<"J","o","b","/">> \o PyStr(job) \o <<"/","C","u","s","t","o","m">>
    IN  post(url, _xml_from_properties(properties), NoHeaders, net)

set_task_environment_variables(job, task, env_variables, net) ==
    LET url == base_url \o <<"/","J","o","b","/">> \o PyStr(job) \o <<"/","T","a","s","k","/">> \o PyStr(task)
                 \o <<"/","E","n","v","V","a","r","i","a","b","l","e","s">>
    IN  post(url, _xml_from_properties(env_variables), NoHeaders, net)

set_task_properties(job, task, properties, net) ==
    LET url == base_url \o <<"J","o","b","/">> \o PyStr(job) \o <<"/","T","a","s","k","/">> \o PyStr(task)
    IN  put(url, _xml_from_properties(properties), net)

submit_job(job, properties, net) ==
    LET url == base_url \o <<"/","J","o","b","/">> \o PyStr(job) \o <<"/","S","u","b","m","i","t">>
    IN  post(url, _xml_from_properties(properties), NoHeaders, net)

(***************************************************************************)
(* The environment: what callers pass and what the network answers.        *)
(***************************************************************************)
MaxNames == 2

MaxProps == 1

MaxValueLen == 2

DefaultPort == 443

\* the sequences over pool of length up to n (the strings over an alphabet)
RECURSIVE Strings(_, _)
Strings(pool, n) ==
    IF n = 0 THEN {<<>>}
    ELSE LET shorter == Strings(pool, n - 1)
         IN  shorter \cup {Append(s, c) : s \in shorter, c \in pool}

\* lists of distinct names, of length up to n
Distinct(pool, n) ==
    {s \in Strings(pool, n) : \A i, j \in 1..Len(s) : i # j => s[i] # s[j]}

\* keyword dictionaries of up to n entries: <<name, value>> with distinct names
Bags(names, values, n) ==
    {b \in Strings(names \X values, n) : \A i, j \in 1..Len(b) : i # j => b[i][1] # b[j][1]}

Net(status, text) == [kind |-> "response", status |-> status, text |-> text]

ConnectionError(text) == [kind |-> "ConnectionError", status |-> 0, text |-> text]

NoNet == [kind |-> "", status |-> 0, text |-> <<>>]

StringDoc == <<"<","s","t","r","i","n","g",">","4","2","<","/","s","t","r","i","n","g",">">>

StateDoc ==
    <<"<","A","r","r","a","y","O","f","P","r","o","p","e","r","t","y",">","<","P","r","o","p","e","r","t","y",">","<","N","a","m","e",">","S","t","a","t","e","<","/","N","a","m","e",">","<","V","a","l","u","e",">","R","u","n","n","i","n","g","<","/","V","a","l","u","e",">","<","/","P","r","o","p","e","r","t","y",">","<","/","A","r","r","a","y","O","f","P","r","o","p","e","r","t","y",">">>

EmptyDoc == <<"<","A","r","r","a","y","O","f","P","r","o","p","e","r","t","y","/",">">>

ClustersDoc ==
    <<"<","A",">","<","O",">","<","P",">","<","X",">","<","N",">","N","a","m","e","<","/","N",">","<","V",">","C","l","u","s","t","e","r","A","<","/","V",">","<","/","X",">","<","X",">","<","N",">","N","a","m","e","<","/","N",">","<","V",">","C","l","u","s","t","e","r","B","<","/","V",">","<","/","X",">","<","/","P",">","<","/","O",">","<","/","A",">">>

NoClustersDoc == <<"<","A",">","<","O",">","<","P","/",">","<","/","O",">","<","/","A",">">>

\* What the network may do with one call.  A call may fail in three ways:
\* a status other than 200 (an error, or a success that is not 200), or no
\* connection.  A 200 carries a document of the kind the operation returns,
\* or a body that is not XML.
Failures == {Net(500, <<"e","r","r","o","r">>), Net(201, StringDoc), ConnectionError(<<"r","e","f","u","s","e","d">>)}

Malformed == Net(200, <<"<","h","t","m","l",">">>)

\* operations answered with <string>..</string>
StringAnswers == Failures \cup {Malformed, Net(200, StringDoc)}

\* operations answered with an ArrayOfProperty
PropertyAnswers == Failures \cup {Malformed, Net(200, StateDoc), Net(200, EmptyDoc)}

\* the cluster discovery
ClusterAnswers == Failures \cup {Malformed, Net(200, ClustersDoc), Net(200, NoClustersDoc)}

\* operations whose answer is not parsed
PlainAnswers == Failures \cup {Net(200, StringDoc)}

Hosts == {<<"h","p","c">>}

Ports == {DefaultPort}

Versions == {None, HPC_Pack_2008_R2_SP3, HPC_Pack_2008_R2_SP4, HPC_Pack_2012}

\* __init__'s api_version and hpc_cluster_name arguments
CtorArgs ==
    {<<v, <<"C">>>> : v \in Versions \ {HPC_Pack_2008_R2_SP3}} \cup {<<HPC_Pack_2008_R2_SP3, None>>}

JobIds == {<<"7">>}

TaskIds == {<<"2">>}

SubtaskIds == {<<"3">>}

PropertyNames == <<<<"N","a","m","e">>, <<"S","t","a","t","e">>, <<"P","r","i","o","r","i","t","y">>, <<"O","w","n","e","r">>>>

\* requested_properties: None, or the first MaxNames names
RequestedLists == {NoneList, SubSeq(PropertyNames, 1, MaxNames)}

\* **properties: no keyword, or the first MaxProps of these
PropertyBags ==
    {<<>>, SubSeq(<<<<<<"N","a","m","e">>, <<"x">>>>, <<<<"P","r","i","o","r","i","t","y">>, <<"N","o","r","m","a","l">>>>, <<<<"O","w","n","e","r">>, <<"m","e">>>>>>, 1, MaxProps)}

HttpMethods == {"get", "post", "put", "delete"}

NoArgs ==
    [job |-> None, task |-> None, subtask |-> None, requested |-> NoneList,
     properties |-> <<>>, forced |-> PyFalse, message |-> <<>>, name |-> None,
     xml |-> None, method |-> "", url |-> <<>>]

NoExchange ==
    [method |-> "", url |-> <<>>, data |-> None, headers |-> NoHeaders,
     auth |-> <<None, None>>, verify |-> FALSE, net |-> NoNet]

NoCall == [op |-> "", args |-> NoArgs, ret |-> RetNone, nreq |-> 0]

\* self.headers, as __init__ builds it
DefaultHeaders(version) ==
    IF version # None
    THEN [k \in {"Content-type", "api-version"} |->
             IF k = "Content-type" THEN <<"a","p","p","l","i","c","a","t","i","o","n","/","x","m","l">> ELSE version]
    ELSE [k \in {"Content-type"} |-> <<"a","p","p","l","i","c","a","t","i","o","n","/","x","m","l">>]

\* __init__ up to the choice of the cluster: the fields are set from the
\* arguments, no request has been made
Constructing(h, u, p, prt, cluster, version) ==
    /\ host = h
    /\ username = u
    /\ password = p
    /\ port = prt
    /\ api_version = version
    /\ response = None
    /\ headers = DefaultHeaders(version)
    /\ requests_kwargs = [auth |-> <<u, p>>, verify |-> FALSE]
    /\ arg_cluster = cluster
    /\ hpc_cluster_name = None
    /\ base_url = <<>>
    /\ phase = "new"
    /\ wire = NoExchange
    /\ lastCall = NoCall

NoMain ==
    /\ pc = "lib"
    /\ cli = [name |-> <<>>, command |-> <<>>, workdir |-> None, priority |-> <<>>]
    /\ job_id = None
    /\ remote = <<>>
    /\ printed = <<>>

NoHelpers ==
    /\ h_names = <<>>
    /\ h_string = None
    /\ h_props = <<>>
    /\ h_xml = None
    /\ h_dict = RetNone

Callers == {"A", "B"}

\* a caller that has not called yet
Idle ==
    [at |-> "idle", op |-> "",
     r |-> [ret |-> RetNone, sent |-> <<>>, response |-> None, headers |-> NoHeaders],
     ret |-> RetNone]

NoThreads ==
    callers = [t \in Callers |-> Idle]

Init ==
    /\ \E h \in Hosts, prt \in Ports, a \in CtorArgs :
          Constructing(h, <<"u","s","e","r">>, <<"s","e","c","r","e","t">>, prt, a[2], a[1])
    /\ NoMain
    /\ NoHelpers
    /\ NoThreads

\* the rest of __init__, were the last cluster taken
Constructed_last(called, r) ==
    LET clusters == r.ret
        name == IF ~called THEN arg_cluster
                ELSE IF clusters.kind = "list" /\ clusters.l # <<>> THEN clusters.l[Len(clusters.l)]
                ELSE None
    IN  /\ response' = (IF called THEN r.response ELSE response)
        /\ wire' = (IF called /\ r.sent # <<>> THEN r.sent[1] ELSE wire)
        /\ lastCall' = [op |-> "__init__", args |-> NoArgs,
                        ret |-> (IF called /\ clusters.kind = "raise" THEN clusters ELSE RetNone),
                        nreq |-> (IF called THEN Len(r.sent) ELSE 0)]
        /\ IF called /\ clusters.kind = "raise"
           THEN /\ phase' = "raised"
                /\ UNCHANGED <<hpc_cluster_name, base_url>>
           ELSE /\ phase' = "ready"
                /\ hpc_cluster_name' = name
                /\ base_url' = <<"h","t","t","p","s",":","/","/">> \o PyStr(host) \o <<":">> \o IntStr(port)
                                \o <<"/","W","i","n","d","o","w","s","H","P","C","/">> \o PyStr(name) \o <<"/">>
        /\ headers' = (IF called THEN r.headers ELSE headers)
        /\ UNCHANGED <<host, port, username, password, api_version,
                       requests_kwargs, arg_cluster>>

\* the rest of __init__: the cluster name, discovered when none is given,
\* and the base URL.  r is what get_clusters gave, when it was called.
Constructed(called, r) ==
    LET clusters == r.ret
        name == IF ~called THEN arg_cluster
                ELSE IF clusters.kind = "list" /\ clusters.l # <<>> THEN clusters.l[1]
                ELSE None
    IN  /\ response' = (IF called THEN r.response ELSE response)
        /\ wire' = (IF called /\ r.sent # <<>> THEN r.sent[1] ELSE wire)
        /\ lastCall' = [op |-> "__init__", args |-> NoArgs,
                        ret |-> (IF called /\ clusters.kind = "raise" THEN clusters ELSE RetNone),
                        nreq |-> (IF called THEN Len(r.sent) ELSE 0)]
        /\ IF called /\ clusters.kind = "raise"
           THEN /\ phase' = "raised"
                /\ UNCHANGED <<hpc_cluster_name, base_url>>
           ELSE /\ phase' = "ready"
                /\ hpc_cluster_name' = name
                /\ base_url' = <<"h","t","t","p","s",":","/","/">> \o PyStr(host) \o <<":">> \o IntStr(port)
                                \o <<"/","W","i","n","d","o","w","s","H","P","C","/">> \o PyStr(name) \o <<"/">>
        /\ headers' = (IF called THEN r.headers ELSE headers)
        /\ UNCHANGED <<host, port, username, password, api_version,
                       requests_kwargs, arg_cluster>>

WebAPI__init__ ==
    /\ phase = "new"
    /\ pc = "lib"
    /\ IF arg_cluster # None
       THEN Constructed(FALSE, [ret |-> RetNone, sent |-> <<>>, response |-> response, headers |-> headers])
       ELSE \E net \in ClusterAnswers : Constructed(TRUE, get_clusters(net))
    /\ UNCHANGED <<main_vars, helper_vars, thread_vars>>

\* one invocation of a method on the constructed client
Invoke(op, args, r) ==
    /\ phase = "ready"
    /\ response' = r.response
    /\ wire' = (IF r.sent # <<>> THEN r.sent[1] ELSE wire)
    /\ lastCall' = [op |-> op, args |-> args, ret |-> r.ret, nreq |-> Len(r.sent)]
    /\ headers' = r.headers
    /\ UNCHANGED <<host, port, username, password, api_version, requests_kwargs,
                   hpc_cluster_name, base_url, arg_cluster, phase>>

Call_request ==
    /\ pc = "lib"
    /\ \E method \in HttpMethods, net \in PlainAnswers :
          Invoke("request", [NoArgs EXCEPT !.method = method, !.url = base_url],
                 request(method, base_url, None, NoHeaders, net))
    /\ UNCHANGED <<main_vars, helper_vars, thread_vars>>

Call_add_task ==
    /\ pc = "lib"
    /\ \E job \in JobIds, properties \in PropertyBags, net \in StringAnswers :
          Invoke("add_task", [NoArgs EXCEPT !.job = job, !.properties = properties],
                 add_task(job, properties, net))
    /\ UNCHANGED <<main_vars, helper_vars, thread_vars>>

Call_cancel_job ==
    /\ pc = "lib"
    /\ \E job \in JobIds, forced \in {PyFalse, PyTrue}, net \in PlainAnswers :
          Invoke("cancel_job", [NoArgs EXCEPT !.job = job, !.forced = forced],
                 cancel_job(job, forced, <<>>, net))
    /\ UNCHANGED <<main_vars, helper_vars, thread_vars>>

Call_cancel_task ==
    /\ pc = "lib"
    /\ \E job \in JobIds, task \in TaskIds, forced \in {PyFalse, PyTrue}, net \in PlainAnswers :
          Invoke("cancel_task", [NoArgs EXCEPT !.job = job, !.task = task, !.forced = forced],
                 cancel_task(job, task, forced, <<>>, net))
    /\ UNCHANGED <<main_vars, helper_vars, thread_vars>>

Call_create_job ==
    /\ pc = "lib"
    /\ \E properties \in PropertyBags, net \in StringAnswers :
          Invoke("create_job", [NoArgs EXCEPT !.properties = properties],
                 create_job(properties, net))
    /\ UNCHANGED <<main_vars, helper_vars, thread_vars>>

Call_create_job_from_xml ==
    /\ pc = "lib"
    /\ \E net \in StringAnswers :
          Invoke("create_job_from_xml", [NoArgs EXCEPT !.xml = <<"<","J","o","b","/",">">>],
                 create_job_from_xml(<<"<","J","o","b","/",">">>, net))
    /\ UNCHANGED <<main_vars, helper_vars, thread_vars>>

Call_get_active_head_node ==
    /\ pc = "lib"
    /\ \E net \in StringAnswers :
          Invoke("get_active_head_node", NoArgs, get_active_head_node(net))
    /\ UNCHANGED <<main_vars, helper_vars, thread_vars>>

Call_get_clusters ==
    /\ pc = "lib"
    /\ \E net \in ClusterAnswers :
          Invoke("get_clusters", NoArgs, get_clusters(net))
    /\ UNCHANGED <<main_vars, helper_vars, thread_vars>>

Call_get_job ==
    /\ pc = "lib"
    /\ \E job \in JobIds, requested \in RequestedLists, net \in PropertyAnswers :
          Invoke("get_job", [NoArgs EXCEPT !.job = job, !.requested = requested],
                 get_job(job, requested, net))
    /\ UNCHANGED <<main_vars, helper_vars, thread_vars>>

Call_get_job_as_xml ==
    /\ pc = "lib"
    /\ \E job \in JobIds, net \in PlainAnswers :
          Invoke("get_job_as_xml", [NoArgs EXCEPT !.job = job], get_job_as_xml(job, net))
    /\ UNCHANGED <<main_vars, helper_vars, thread_vars>>

Call_get_job_custom_properties ==
    /\ pc = "lib"
    /\ \E job \in JobIds, requested \in RequestedLists, net \in PropertyAnswers :
          Invoke("get_job_custom_properties",
                 [NoArgs EXCEPT !.job = job, !.requested = requested],
                 get_job_custom_properties(job, requested, net))
    /\ UNCHANGED <<main_vars, helper_vars, thread_vars>>

Call_get_job_property ==
    /\ pc = "lib"
    /\ \E job \in JobIds, name \in {<<"N","a","m","e">>, <<"S","t","a","t","e">>}, net \in PropertyAnswers :
          Invoke("get_job_property", [NoArgs EXCEPT !.job = job, !.name = name],
                 get_job_property(job, name, net))
    /\ UNCHANGED <<main_vars, helper_vars, thread_vars>>

Call_get_job_environment_variables ==
    /\ pc = "lib"
    /\ \E job \in JobIds, requested \in RequestedLists, net \in PropertyAnswers :
          Invoke("get_job_environment_variables",
                 [NoArgs EXCEPT !.job = job, !.requested = requested],
                 get_job_environment_variables(job, requested, net))
    /\ UNCHANGED <<main_vars, helper_vars, thread_vars>>

Call_get_subtask ==
    /\ pc = "lib"
    /\ \E job \in JobIds, task \in TaskIds, subtask \in SubtaskIds,
          requested \in RequestedLists, net \in PropertyAnswers :
          Invoke("get_subtask",
                 [NoArgs EXCEPT !.job = job, !.task = task, !.subtask = subtask,
                                !.requested = requested],
                 get_subtask(job, task, subtask, requested, net))
    /\ UNCHANGED <<main_vars, helper_vars, thread_vars>>

Call_get_subtask_as_xml ==
    /\ pc = "lib"
    /\ \E job \in JobIds, task \in TaskIds, subtask \in SubtaskIds, net \in PlainAnswers :
          Invoke("get_subtask_as_xml",
                 [NoArgs EXCEPT !.job = job, !.task = task, !.subtask = subtask],
                 get_subtask_as_xml(job, task, subtask, net))
    /\ UNCHANGED <<main_vars, helper_vars, thread_vars>>

Call_get_task ==
    /\ pc = "lib"
    /\ \E job \in JobIds, task \in TaskIds, requested \in RequestedLists, net \in PropertyAnswers :
          Invoke("get_task",
                 [NoArgs EXCEPT !.job = job, !.task = task, !.requested = requested],
                 get_task(job, task, requested, net))
    /\ UNCHANGED <<main_vars, helper_vars, thread_vars>>

Call_get_task_environment_variables ==
    /\ pc = "lib"
    /\ \E job \in JobIds, task \in TaskIds, requested \in RequestedLists, net \in PropertyAnswers :
          Invoke("get_task_environment_variables",
                 [NoArgs EXCEPT !.job = job, !.task = task, !.requested = requested],
                 get_task_environment_variables(job, task, requested, net))
    /\ UNCHANGED <<main_vars, helper_vars, thread_vars>>

Call_get_version ==
    /\ pc = "lib"
    /\ \E net \in StringAnswers :
          Invoke("get_version", NoArgs, get_version(net))
    /\ UNCHANGED <<main_vars, helper_vars, thread_vars>>

Call_requeue_job ==
    /\ pc = "lib"
    /\ \E job \in JobIds, net \in PlainAnswers :
          Invoke("requeue_job", [NoArgs EXCEPT !.job = job], requeue_job(job, net))
    /\ UNCHANGED <<main_vars, helper_vars, thread_vars>>

Call_set_job_environment_variables ==
    /\ pc = "lib"
    /\ \E job \in JobIds, properties \in PropertyBags, net \in PlainAnswers :
          Invoke("set_job_environment_variables",
                 [NoArgs EXCEPT !.job = job, !.properties = properties],
                 set_job_environment_variables(job, properties, net))
    /\ UNCHANGED <<main_vars, helper_vars, thread_vars>>

Call_set_job_properties ==
    /\ pc = "lib"
    /\ \E job \in JobIds, properties \in PropertyBags, net \in PlainAnswers :
          Invoke("set_job_properties",
                 [NoArgs EXCEPT !.job = job, !.properties = properties],
                 set_job_properties(job, properties, net))
    /\ UNCHANGED <<main_vars, helper_vars, thread_vars>>

Call_set_job_custom_properties ==
    /\ pc = "lib"
    /\ \E job \in JobIds, properties \in PropertyBags, net \in PlainAnswers :
          Invoke("set_job_custom_properties",
                 [NoArgs EXCEPT !.job = job, !.properties = properties],
                 set_job_custom_properties(job, properties, net))
    /\ UNCHANGED <<main_vars, helper_vars, thread_vars>>

Call_set_task_environment_variables ==
    /\ pc = "lib"
    /\ \E job \in JobIds, task \in TaskIds, properties \in PropertyBags, net \in PlainAnswers :
          Invoke("set_task_environment_variables",
                 [NoArgs EXCEPT !.job = job, !.task = task, !.properties = properties],
                 set_task_environment_variables(job, task, properties, net))
    /\ UNCHANGED <<main_vars, helper_vars, thread_vars>>

Call_set_task_properties ==
    /\ pc = "lib"
    /\ \E job \in JobIds, task \in TaskIds, properties \in PropertyBags, net \in PlainAnswers :
          Invoke("set_task_properties",
                 [NoArgs EXCEPT !.job = job, !.task = task, !.properties = properties],
                 set_task_properties(job, task, properties, net))
    /\ UNCHANGED <<main_vars, helper_vars, thread_vars>>

Call_submit_job ==
    /\ pc = "lib"
    /\ \E job \in JobIds, properties \in PropertyBags, net \in PlainAnswers :
          Invoke("submit_job", [NoArgs EXCEPT !.job = job, !.properties = properties],
                 submit_job(job, properties, net))
    /\ UNCHANGED <<main_vars, helper_vars, thread_vars>>

Next ==
    \/ WebAPI__init__
    \/ Call_request
    \/ Call_add_task
    \/ Call_cancel_job
    \/ Call_cancel_task
    \/ Call_create_job
    \/ Call_create_job_from_xml
    \/ Call_get_active_head_node
    \/ Call_get_clusters
    \/ Call_get_job
    \/ Call_get_job_as_xml
    \/ Call_get_job_custom_properties
    \/ Call_get_job_property
    \/ Call_get_job_environment_variables
    \/ Call_get_subtask
    \/ Call_get_subtask_as_xml
    \/ Call_get_task
    \/ Call_get_task_environment_variables
    \/ Call_get_version
    \/ Call_requeue_job
    \/ Call_set_job_environment_variables
    \/ Call_set_job_properties
    \/ Call_set_job_custom_properties
    \/ Call_set_task_environment_variables
    \/ Call_set_task_properties
    \/ Call_submit_job

Spec == Init /\ [][Next]_vars

(***************************************************************************)
(* submit.py: one run of main(hostname, username, password, name, command, *)
(* workdir, priority).  Each call main makes on the client is one step.    *)
(*   pc       "start", "create", "add", "submit": the call main makes next *)
(*            "done": main returned;  "raised": an exception ended the run *)
(*   remote   the calls made on the client so far, in order                *)
(*   printed  the lines printed so far                                     *)
(***************************************************************************)
Workdirs == {None, <<"/","w">>}

CliArgs ==
    {[name |-> <<"j","o","b">>, command |-> <<"c","m","d">>, workdir |-> w, priority |-> <<"N","o","r","m","a","l">>] :
        w \in Workdirs}

InitMain ==
    /\ \E h \in Hosts :
          Constructing(h, <<"u","s","e","r">>, <<"s","e","c","r","e","t">>, DefaultPort, None, HPC_Pack_2008_R2_SP3)
    /\ pc = "start"
    /\ cli \in CliArgs
    /\ job_id = None
    /\ remote = <<>>
    /\ printed = <<>>
    /\ NoHelpers
    /\ NoThreads

\* what a call gave to the variable it is assigned to
Returned(ret) ==
    IF ret.kind = "str" THEN ret.s ELSE None

\* one call of main on the client: its place in the run's record
Remote(op, job, properties, r) ==
    [op |-> op, job |-> job, properties |-> properties, ret |-> r.ret,
     url |-> (IF r.sent # <<>> THEN r.sent[1].url ELSE <<>>)]

\* server = WebAPI(hostname, username, password)
main_WebAPI ==
    /\ pc = "start"
    /\ phase = "new"
    /\ \E net \in ClusterAnswers : Constructed(TRUE, get_clusters(net))
    /\ pc' = (IF phase' = "raised" THEN "raised" ELSE "create")
    /\ UNCHANGED <<cli, job_id, remote, printed, helper_vars, thread_vars>>

\* job_id = server.create_job(name=name, priority=priority)
main_create_job ==
    /\ pc = "create"
    /\ \E net \in StringAnswers :
          LET properties == <<<<<<"n","a","m","e">>, cli.name>>, <<<<"p","r","i","o","r","i","t","y">>, cli.priority>>>>
              r == create_job(properties, net)
          IN  /\ Invoke("create_job", [NoArgs EXCEPT !.properties = properties], r)
              /\ remote' = Append(remote, Remote("create_job", None, properties, r))
              /\ IF r.ret.kind = "raise"
                 THEN pc' = "raised" /\ UNCHANGED job_id
                 ELSE pc' = "add" /\ job_id' = Returned(r.ret)
    /\ UNCHANGED <<cli, printed, helper_vars, thread_vars>>

\* the keywords of add_task, were the working directory left out
main_task_properties_no_workdir(command, workdir) ==
    <<<<<<"n","a","m","e">>, <<"T","a","s","k"," ","c","r","e","a","t","e","d"," ","b","y"," ","v","e","c","n","e","t",".","w","i","n","h","p","c"," ","l","i","b","r","a","r","y">>>>, <<<<"c","o","m","m","a","n","d","L","i","n","e">>, command>>>>

\* the keywords main passes to add_task
main_task_properties(command, workdir) ==
    <<<<<<"n","a","m","e">>, <<"T","a","s","k"," ","c","r","e","a","t","e","d"," ","b","y"," ","v","e","c","n","e","t",".","w","i","n","h","p","c"," ","l","i","b","r","a","r","y">>>>, <<<<"c","o","m","m","a","n","d","L","i","n","e">>, command>>>>
    \o (IF workdir = None THEN <<>> ELSE <<<<<<"W","o","r","k","D","i","r","e","c","t","o","r","y">>, workdir>>>>)

\* the two branches on workdir, each with its call of add_task
main_add_task ==
    /\ pc = "add"
    /\ \E net \in StringAnswers :
          LET properties == main_task_properties(cli.command, cli.workdir)
              r == add_task(job_id, properties, net)
              task_id == Returned(r.ret)
          IN  /\ Invoke("add_task", [NoArgs EXCEPT !.job = job_id, !.properties = properties], r)
              /\ remote' = Append(remote, Remote("add_task", job_id, properties, r))
              /\ pc' = (IF r.ret.kind = "raise" THEN "raised" ELSE "submit")
              /\ printed' = printed
                    \o (IF cli.workdir = None THEN <<>> ELSE <<cli.workdir>>)
                    \o (IF cli.workdir # None /\ r.ret.kind # "raise" /\ task_id = None
                        THEN <<<<"T","a","s","k"," ","c","r","e","a","t","i","o","n"," ","f","a","i","l","e","d">>, <<"E","r","r","o","r",":"," ">> \o PyStr(r.response)>>
                        ELSE <<>>)
    /\ UNCHANGED <<cli, job_id, helper_vars, thread_vars>>

SubmittedLine(job) == <<"S","u","c","c","e","s","s","f","u","l","l","y"," ","s","u","b","m","i","t","t","e","d"," ","j","o","b"," ">> \o PyStr(job)

FailedLine(job) == <<"J","o","b"," ","s","u","b","m","i","s","s","i","o","n"," ","f","a","i","l","e","d",","," ","j","o","b","_","i","d"," ">> \o PyStr(job)

\* if server.submit_job(job_id): ... else: ...; return job_id
main_submit_job ==
    /\ pc = "submit"
    /\ \E net \in PlainAnswers :
          LET r == submit_job(job_id, <<>>, net)
          IN  /\ Invoke("submit_job", [NoArgs EXCEPT !.job = job_id], r)
              /\ remote' = Append(remote, Remote("submit_job", job_id, <<>>, r))
              /\ printed' = Append(printed,
                                   IF r.ret.b THEN SubmittedLine(job_id) ELSE FailedLine(job_id))
              /\ pc' = "done"
    /\ UNCHANGED <<cli, job_id, helper_vars, thread_vars>>

NextMain ==
    \/ main_WebAPI
    \/ main_create_job
    \/ main_add_task
    \/ main_submit_job

SpecMain == InitMain /\ [][NextMain]_vars

(***************************************************************************)
(* The helper functions on their own: the inputs are drawn at the start,   *)
(* each step applies one function to them.                                 *)
(***************************************************************************)
HelperNames == {<<"N","a","m","e">>, <<"S","t","a","t","e">>}

HelperKeys == {<<"a">>, <<"b">>}

HelperValues == Strings({"v", "<", "&"}, MaxValueLen)

InitHelpers ==
    /\ \E h \in Hosts :
          Constructing(h, <<"u","s","e","r">>, <<"s","e","c","r","e","t">>, DefaultPort, <<"C">>, HPC_Pack_2008_R2_SP3)
    /\ pc = "helpers"
    /\ cli = [name |-> <<>>, command |-> <<>>, workdir |-> None, priority |-> <<>>]
    /\ job_id = None
    /\ remote = <<>>
    /\ printed = <<>>
    /\ h_names \in Distinct(HelperNames, MaxNames)
    /\ h_props \in Bags(HelperKeys, HelperValues, MaxProps)
    /\ h_string = None
    /\ h_xml = None
    /\ h_dict = RetNone
    /\ NoThreads

Apply_requested_properties_to_string ==
    /\ pc = "helpers"
    /\ h_string = None
    /\ h_string' = _requested_properties_to_string(h_names)
    /\ UNCHANGED <<config, phase, response, wire, lastCall, main_vars, thread_vars,
                   h_names, h_props, h_xml, h_dict>>

Apply_xml_from_properties ==
    /\ pc = "helpers"
    /\ h_xml = None
    /\ h_xml' = _xml_from_properties(h_props)
    /\ UNCHANGED <<config, phase, response, wire, lastCall, main_vars, thread_vars,
                   h_names, h_props, h_string, h_dict>>

Apply_get_properties_from_xml ==
    /\ pc = "helpers"
    /\ h_xml # None
    /\ h_dict = RetNone
    /\ h_dict' = _get_properties_from_xml(h_xml, response)
    /\ UNCHANGED <<config, phase, response, wire, lastCall, main_vars, thread_vars,
                   h_names, h_props, h_string, h_xml>>

NextHelpers ==
    \/ Apply_requested_properties_to_string
    \/ Apply_xml_from_properties
    \/ Apply_get_properties_from_xml

SpecHelpers == InitHelpers /\ [][NextHelpers]_vars

(***************************************************************************)
(* One client shared by two callers, each on a thread of its own, with no  *)
(* lock.  A method that parses its answer runs in two steps: its Transport *)
(* call, which writes self.response, and its return, which reads           *)
(* self.response; the other caller may run between the two.               *)
(*   callers[t].at   "idle", "called" (the Transport call has returned),   *)
(*                   "returned"                                            *)
(*   callers[t].r    what the caller's Transport call gave back            *)
(*   callers[t].ret  what the method returned to the caller                *)
(***************************************************************************)
ThreadOps == {"create_job", "get_version"}

OtherStringDoc == <<"<","s","t","r","i","n","g",">","4","3","<","/","s","t","r","i","n","g",">">>

ThreadAnswers ==
    {Net(200, StringDoc), Net(200, OtherStringDoc), Net(500, <<"e","r","r","o","r">>),
     ConnectionError(<<"r","e","f","u","s","e","d">>)}

InitThreads ==
    /\ \E h \in Hosts :
          Constructing(h, <<"u","s","e","r">>, <<"s","e","c","r","e","t">>, DefaultPort, <<"C">>, HPC_Pack_2008_R2_SP3)
    /\ pc = "threads"
    /\ cli = [name |-> <<>>, command |-> <<>>, workdir |-> None, priority |-> <<>>]
    /\ job_id = None
    /\ remote = <<>>
    /\ printed = <<>>
    /\ NoHelpers
    /\ NoThreads

\* the client is constructed before it is shared
shared_WebAPI ==
    /\ pc = "threads"
    /\ phase = "new"
    /\ Constructed(FALSE, [ret |-> RetNone, sent |-> <<>>, response |-> response,
                           headers |-> headers])
    /\ UNCHANGED <<main_vars, helper_vars, thread_vars>>

\* "if not self.post(url, xml)" of create_job, "if not self.get(url)" of
\* get_version: the exchange is made and self.response written
caller_request(t) ==
    /\ pc = "threads"
    /\ phase = "ready"
    /\ callers[t].at = "idle"
    /\ \E op \in ThreadOps, properties \in PropertyBags, net \in ThreadAnswers :
          LET r == IF op = "create_job" THEN create_job_post(properties, net)
                   ELSE get_version_get(net)
          IN  /\ response' = r.response
              /\ wire' = r.sent[1]
              /\ headers' = r.headers
              /\ callers' = [callers EXCEPT ![t] = [at |-> "called", op |-> op, r |-> r,
                                                    ret |-> RetNone]]
    /\ UNCHANGED <<host, port, username, password, api_version, requests_kwargs,
                   hpc_cluster_name, base_url, arg_cluster, phase, lastCall,
                   main_vars, helper_vars>>

\* the method, were it to parse the body its own exchange wrote
Resume_own(r) == r

\* the method goes on after its Transport call: "xml = self.response" reads
\* the field as it stands by then
Resume(r) == [r EXCEPT !.response = response]

\* "return None", or "return self._get_string_from_response()"
caller_return(t) ==
    /\ pc = "threads"
    /\ callers[t].at = "called"
    /\ LET r == ReturnString(Resume(callers[t].r))
       IN  /\ callers' = [callers EXCEPT ![t].at = "returned", ![t].ret = r.ret]
           /\ lastCall' = [op |-> callers[t].op, args |-> NoArgs, ret |-> r.ret,
                           nreq |-> Len(r.sent)]
    /\ UNCHANGED <<config, phase, response, wire, main_vars, helper_vars>>

NextThreads ==
    \/ shared_WebAPI
    \/ \E t \in Callers : caller_request(t)
    \/ \E t \in Callers : caller_return(t)

SpecThreads == InitThreads /\ [][NextThreads]_vars

(***************************************************************************)
(* The claims.                                                             *)
(***************************************************************************)
\* the methods that map one REST operation
EndpointOps ==
    {"add_task", "cancel_job", "cancel_task", "create_job", "create_job_from_xml",
     "get_active_head_node", "get_clusters", "get_job", "get_job_as_xml",
     "get_job_custom_properties", "get_job_property", "get_job_environment_variables",
     "get_subtask", "get_subtask_as_xml", "get_task", "get_task_environment_variables",
     "get_version", "requeue_job", "set_job_environment_variables", "set_job_properties",
     "set_job_custom_properties", "set_task_environment_variables", "set_task_properties",
     "submit_job"}

\* those that return the success flag; the others return a value or None
FlagOps ==
    {"cancel_job", "cancel_task", "requeue_job", "set_job_environment_variables",
     "set_job_properties", "set_job_custom_properties", "set_task_environment_variables",
     "set_task_properties", "submit_job"}

\* the exchange did not end in a 200
Failed(net) == net.kind = "ConnectionError" \/ net.status # 200

StartsWith(s, prefix) ==
    Len(prefix) <= Len(s) /\ SubSeq(s, 1, Len(prefix)) = prefix

\* ---- C1 -----------------------------------------------------------------
\* C1: whenever the Transport call of an endpoint method reports false (a
\* status other than 200, or a connection failure), the method returns its
\* failure value (False for the methods that return the flag, None for the
\* others), does not raise, and Last Response is the body or the failure
\* description of that exchange.
C1_FailedCallReturnsFailureValue ==
    (lastCall.op \in EndpointOps /\ lastCall.nreq = 1 /\ Failed(wire.net))
        => /\ lastCall.ret = (IF lastCall.op \in FlagOps THEN RetBool(FALSE) ELSE RetNone)
           /\ response = wire.net.text

\* ---- C2 -----------------------------------------------------------------
\* C2: request with a supported method (get, post, put) makes the exchange
\* and returns true if and only if it completed with status exactly 200; for
\* every other status and for a connection failure it returns false and does
\* not raise.
C2_RequestTrueIffStatus200 ==
    (lastCall.op = "request" /\ lastCall.args.method \in {"get", "post", "put"})
        => /\ lastCall.nreq = 1
           /\ wire.method = lastCall.args.method
           /\ lastCall.ret = RetBool(wire.net.kind = "response" /\ wire.net.status = 200)

C2_Witness ==
    /\ lastCall.op = "request"
    /\ lastCall.args.method = "put"
    /\ wire.net.kind = "ConnectionError"
    /\ lastCall.ret = RetBool(FALSE)

\* ---- C3 -----------------------------------------------------------------
\* C3: Last Response holds the outcome of the most recent Transport exchange
\* only: its body if it completed, whatever the status, or the description of
\* the failure if it did not; before any exchange it is None.
C3_LastResponseIsMostRecent ==
    IF wire = NoExchange THEN response = None
    ELSE response = (IF wire.net.kind = "response" THEN wire.net.text
                     ELSE PyStr(wire.net.text))

\* a second exchange (the first was the discovery) has failed to connect
C3_Witness ==
    /\ arg_cluster = None
    /\ phase = "ready"
    /\ lastCall.op = "get_version"
    /\ lastCall.nreq = 1
    /\ wire.net.kind = "ConnectionError"
    /\ response = wire.net.text

\* ---- C4 -----------------------------------------------------------------
\* C4: set_job_properties on a client whose api_version is None, and
\* get_active_head_node on a client whose api_version is below
\* "2012-03-31.3.4", raise before any exchange (no request, Last Response
\* and the wire untouched); with a sufficient version each makes exactly one
\* exchange.
C4_GatedStep ==
    /\ lastCall'.op = "set_job_properties" =>
          IF api_version = None
          THEN /\ lastCall'.ret = Raise("RuntimeError")
               /\ lastCall'.nreq = 0
               /\ response' = response
               /\ wire' = wire
          ELSE /\ lastCall'.nreq = 1
               /\ lastCall'.ret.kind = "bool"
    /\ lastCall'.op = "get_active_head_node" =>
          IF api_version = HPC_Pack_2008_R2_SP3
          THEN /\ lastCall'.ret = Raise("NotImplementedError")
               /\ lastCall'.nreq = 0
               /\ response' = response
               /\ wire' = wire
          ELSE api_version \in {HPC_Pack_2008_R2_SP4, HPC_Pack_2012} => lastCall'.nreq = 1

C4_GatedOperationsFailFast == [][C4_GatedStep]_vars

\* get_active_head_node has raised on a client that had a response already
C4_Witness ==
    /\ lastCall.op = "get_active_head_node"
    /\ api_version = HPC_Pack_2008_R2_SP3
    /\ lastCall.ret = Raise("NotImplementedError")
    /\ lastCall.nreq = 0
    /\ response # None

\* ---- C5 -----------------------------------------------------------------
\* C5: a client constructed without a cluster name makes one discovery GET
\* during construction and takes the first cluster name of the response, in
\* document order; every URL a later method builds carries the client's
\* cluster name.  A client constructed with a cluster name makes no
\* discovery call and uses the name given.
DiscoveryUrl ==
    <<"h","t","t","p","s",":","/","/">> \o host \o <<":">> \o IntStr(port) \o <<"/","W","i","n","d","o","w","s","H","P","C","/","C","l","u","s","t","e","r","s">>

C5_ClusterDiscovery ==
    phase = "ready" =>
        /\ lastCall.op = "__init__" =>
              IF arg_cluster = None
              THEN /\ lastCall.nreq = 1
                   /\ wire.method = "get"
                   /\ wire.url = DiscoveryUrl
                   /\ wire.net = Net(200, ClustersDoc) => hpc_cluster_name = <<"C","l","u","s","t","e","r","A">>
              ELSE /\ lastCall.nreq = 0
                   /\ wire = NoExchange
        /\ arg_cluster # None => hpc_cluster_name = arg_cluster
        /\ (lastCall.op \in EndpointOps \ {"get_clusters"} /\ lastCall.nreq = 1) =>
              StartsWith(wire.url, <<"h","t","t","p","s",":","/","/">> \o host \o <<":">> \o IntStr(port)
                                   \o <<"/","W","i","n","d","o","w","s","H","P","C","/">> \o PyStr(hpc_cluster_name) \o <<"/">>)

\* a method called on a client that discovered its cluster
C5_Witness ==
    /\ arg_cluster = None
    /\ hpc_cluster_name = <<"C","l","u","s","t","e","r","A">>
    /\ lastCall.op = "get_job"
    /\ lastCall.nreq = 1
    /\ StartsWith(wire.url, <<"h","t","t","p","s",":","/","/","h","p","c",":","4","4","3","/","W","i","n","d","o","w","s","H","P","C","/","C","l","u","s","t","e","r","A","/">>)

\* ---- C6 -----------------------------------------------------------------
\* C6: get_job_property(job_id, name) returns the value the mapping produced
\* by get_job holds for name, and None when name is not in that mapping,
\* whether the mapping is empty or holds only other names.
C6_JobPropertyOrAbsent ==
    LET properties == _get_properties_from_xml(None, response)
    IN  (/\ lastCall.op = "get_job_property"
         /\ lastCall.nreq = 1
         /\ ~Failed(wire.net)
         /\ properties.kind = "dict")
            => lastCall.ret = (IF lastCall.args.name \in DOMAIN properties.m
                               THEN RetValue(properties.m[lastCall.args.name])
                               ELSE RetNone)

\* ---- C7 -----------------------------------------------------------------
\* C7: the query value built for a list of requested names is the names
\* joined with single commas in list order, with no trailing comma and no
\* character lost.
RECURSIVE JoinCommas(_)
JoinCommas(names) ==
    IF names = <<>> THEN <<>>
    ELSE IF Len(names) = 1 THEN names[1]
    ELSE names[1] \o <<",">> \o JoinCommas(Tail(names))

C7_JoinedWithCommas ==
    h_string # None => h_string = JoinCommas(h_names)

\* ---- C8 -----------------------------------------------------------------
\* C8: for every property mapping P with distinct names and ASCII string
\* values (the empty mapping and empty values included), parsing the payload
\* built from P gives P back.
RECURSIVE DictOf(_)
DictOf(bag) ==
    IF bag = <<>> THEN NoDict
    ELSE DictSet(DictOf(SubSeq(bag, 1, Len(bag) - 1)), bag[Len(bag)][1], bag[Len(bag)][2])

C8_RoundTrip ==
    h_dict # RetNone => h_dict = RetDict(DictOf(h_props))

\* ---- C9 -----------------------------------------------------------------
\* C9: every URL an endpoint method other than get_clusters passes to
\* Transport is https://{host}:{port}/WindowsHPC/{cluster}/{path}, with the
\* operation's path of the endpoint table, its ids substituted, after a
\* single slash; get_job_custom_properties and set_job_custom_properties
\* address the same path Job/{id}/CustomProperties.
JobPath(a) == <<"J","o","b","/">> \o PyStr(a.job)

TaskPath(a) == JobPath(a) \o <<"/","T","a","s","k","/">> \o PyStr(a.task)

TablePath(op, a) ==
    CASE op = "create_job" -> <<"J","o","b","s">>
      [] op = "create_job_from_xml" -> <<"J","o","b","s","/","J","o","b","F","i","l","e">>
      [] op = "submit_job" -> JobPath(a) \o <<"/","S","u","b","m","i","t">>
      [] op = "cancel_job" -> JobPath(a) \o <<"/","C","a","n","c","e","l">>
      [] op = "requeue_job" -> JobPath(a) \o <<"/","R","e","q","u","e","u","e">>
      [] op = "add_task" -> JobPath(a) \o <<"/","T","a","s","k","s">>
      [] op = "cancel_task" -> TaskPath(a) \o <<"/","C","a","n","c","e","l">>
      [] op \in {"get_job", "get_job_as_xml", "get_job_property", "set_job_properties"} -> JobPath(a)
      [] op \in {"get_job_custom_properties", "set_job_custom_properties"} ->
            JobPath(a) \o <<"/","C","u","s","t","o","m","P","r","o","p","e","r","t","i","e","s">>
      [] op \in {"get_job_environment_variables", "set_job_environment_variables"} ->
            JobPath(a) \o <<"/","E","n","v","V","a","r","i","a","b","l","e","s">>
      [] op \in {"get_task", "set_task_properties"} -> TaskPath(a)
      [] op \in {"get_task_environment_variables", "set_task_environment_variables"} ->
            TaskPath(a) \o <<"/","E","n","v","V","a","r","i","a","b","l","e","s">>
      [] op \in {"get_subtask", "get_subtask_as_xml"} ->
            TaskPath(a) \o <<"/","S","u","b","T","a","s","k","/">> \o PyStr(a.subtask)
      [] op = "get_active_head_node" -> <<"A","c","t","i","v","e","H","e","a","d","n","o","d","e">>
      [] op = "get_version" -> <<"V","e","r","s","i","o","n">>

\* the URL without its query string
BeforeQuery(url) ==
    IF Find(url, "?", 1) = 0 THEN url ELSE SubSeq(url, 1, Find(url, "?", 1) - 1)

C9_UrlForm ==
    (lastCall.op \in EndpointOps \ {"get_clusters"} /\ lastCall.nreq = 1)
        => BeforeQuery(wire.url) =
              <<"h","t","t","p","s",":","/","/">> \o host \o <<":">> \o IntStr(port) \o <<"/","W","i","n","d","o","w","s","H","P","C","/">>
              \o PyStr(hpc_cluster_name) \o <<"/">> \o TablePath(lastCall.op, lastCall.args)

\* ---- C10 ----------------------------------------------------------------
RemoteOps == [i \in 1..Len(remote) |-> remote[i].op]

HasKey(properties, key) == \E i \in 1..Len(properties) : properties[i][1] = key

\* the run made its three calls and reported
RunComplete ==
    /\ RemoteOps = <<"create_job", "add_task", "submit_job">>
    /\ job_id = Returned(remote[1].ret)
    /\ remote[2].job = job_id
    /\ remote[3].job = job_id
    /\ HasKey(remote[2].properties, <<"W","o","r","k","D","i","r","e","c","t","o","r","y">>) <=> cli.workdir # None
    /\ cli.workdir # None =>
          \E i \in 1..Len(remote[2].properties) :
              remote[2].properties[i] = <<<<"W","o","r","k","D","i","r","e","c","t","o","r","y">>, cli.workdir>>
    /\ printed # <<>>
    /\ printed[Len(printed)] =
          (IF remote[3].ret = RetBool(TRUE)
           THEN <<"S","u","c","c","e","s","s","f","u","l","l","y"," ","s","u","b","m","i","t","t","e","d"," ","j","o","b"," ">> \o PyStr(job_id)
           ELSE <<"J","o","b"," ","s","u","b","m","i","s","s","i","o","n"," ","f","a","i","l","e","d",","," ","j","o","b","_","i","d"," ">> \o PyStr(job_id))

\* C10 as claimed: in every run of the helper the remote operations are
\* create job, then one add task to that job (with the working directory if
\* and only if one was given), then one submit of that job, and the run
\* reports success with the job id if and only if submit returned true, and
\* failure with the job id otherwise.
C10_EveryRunSubmitsAndReports ==
    pc \in {"done", "raised"} => RunComplete

\* C10 as amended: the calls are always made in the order create job, add
\* task, submit job, each at most once; every run that no exception ends
\* makes all three and reports, as claimed.  A run ends with an exception,
\* before the remaining calls and with no report, when the discovery, the
\* create-job or the add-task response is a 200 whose body cannot be parsed.
C10_CompletedRunSubmitsAndReports ==
    /\ \E n \in 0..3 : RemoteOps = SubSeq(<<"create_job", "add_task", "submit_job">>, 1, n)
    /\ pc = "done" => RunComplete
    /\ pc = "raised" => Len(remote) < 3 /\ lastCall.ret.kind = "raise"

C10_Witness ==
    /\ pc = "done"
    /\ cli.workdir # None
    /\ job_id = <<"4","2">>
    /\ remote[3].ret = RetBool(TRUE)
    /\ printed[Len(printed)] = <<"S","u","c","c","e","s","s","f","u","l","l","y"," ","s","u","b","m","i","t","t","e","d"," ","j","o","b"," ","4","2">>


\* ---- C11 ----------------------------------------------------------------
\* C11: once construction has completed no call of an endpoint method or of
\* request, whether it succeeds, fails or raises, with or without headers of
\* its own, changes the client's configuration: host, port, username,
\* password, api_version, the cluster name, the base URL, the credentials
\* passed to requests and the default headers keep their values; of the
\* client's fields only Last Response changes.
C11_ConfigurationStep ==
    phase = "ready" => /\ config' = config
                       /\ phase' = phase

C11_ConfigurationIsFrozen == [][C11_ConfigurationStep]_vars

\* cancel_job has sent its forced header, and the default headers lack it
C11_Witness ==
    /\ phase = "ready"
    /\ lastCall.op = "cancel_job"
    /\ lastCall.nreq = 1
    /\ "forced" \in DOMAIN wire.headers
    /\ "forced" \notin DOMAIN headers
    /\ headers = DefaultHeaders(api_version)
    /\ response = wire.net.text

\* ---- C13 ----------------------------------------------------------------
\* C13: there are no retries.  Each invocation of an endpoint method or of
\* request makes at most one exchange: exactly one, unless it raises before
\* the exchange (an unsupported HTTP method, or a version gate).  When that
\* one exchange fails the call ends without a success value and the exchange
\* on the wire is the failed one, made once.  Construction makes at most one
\* exchange, the discovery GET.
FailsFast ==
    \/ lastCall.op = "request" /\ lastCall.args.method \notin {"get", "post", "put"}
    \/ lastCall.op = "set_job_properties" /\ api_version = None
    \/ lastCall.op = "get_active_head_node"
          /\ api_version \in {None, HPC_Pack_2008_R2_SP3}

SuccessValue(ret) ==
    ret = RetBool(TRUE) \/ ret.kind \in {"str", "dict", "list"}

C13_NoRetries ==
    /\ lastCall.op \in EndpointOps \cup {"request"} =>
          /\ lastCall.nreq = (IF FailsFast THEN 0 ELSE 1)
          /\ (lastCall.nreq = 1 /\ Failed(wire.net)) => ~SuccessValue(lastCall.ret)
    /\ lastCall.op = "__init__" =>
          /\ lastCall.nreq = (IF arg_cluster = None THEN 1 ELSE 0)
          /\ lastCall.nreq = 1 => wire.method = "get" /\ wire.url = DiscoveryUrl

\* get_job_property, composed from get_job, has made its one exchange, which
\* could not connect
C13_Witness ==
    /\ lastCall.op = "get_job_property"
    /\ lastCall.nreq = 1
    /\ wire.net.kind = "ConnectionError"
    /\ ~SuccessValue(lastCall.ret)

\* ---- C12 ----------------------------------------------------------------
\* the value a parsing method draws from a response body
ValueOfBody(text) ==
    CASE text = StringDoc -> RetStr(<<"4","2">>)
      [] text = OtherStringDoc -> RetStr(<<"4","3">>)
      [] OTHER -> Raise("ParseError")

\* C12: a client shared by two callers without a lock is unsafe.  A method
\* whose Transport call succeeded returns what the most recent exchange on
\* the client answered, whichever caller made it, and not what its own
\* exchange answered; so when caller B's Transport call runs between caller
\* A's Transport call and A's return, A returns the value of B's call.
C12_ReturnStep ==
    \A t \in Callers :
        (callers[t].at = "called" /\ callers'[t].at = "returned") =>
            callers'[t].ret = (IF callers[t].r.ret = RetBool(TRUE)
                               THEN ValueOfBody(wire.net.text)
                               ELSE RetNone)

C12_SharedClientIsUnsafe == [][C12_ReturnStep]_vars

\* A's create_job was answered 42, B's call 43, and A has returned 43
C12_Witness ==
    /\ callers["A"].at = "returned"
    /\ callers["A"].op = "create_job"
    /\ callers["A"].r.ret = RetBool(TRUE)
    /\ callers["A"].r.response = StringDoc
    /\ callers["B"].at # "idle"
    /\ callers["B"].r.response = OtherStringDoc
    /\ callers["A"].ret = RetStr(<<"4","3">>)
====
